---- MODULE Spec2Model ----
(***************************************************************************)
(* A model of insysbio_db.py: the bearer-token cache and authenticator,    *)
(* the API caller, the dictionary cache, the header catalog and the        *)
(* select / query operations of a database manager.                        *)
(*                                                                         *)
(* Every public method is one atomic action (the client is synchronous and *)
(* single-threaded); the server's answers and the caller's arguments are   *)
(* the action's inputs.  `last` records what the most recent call did: its *)
(* arguments, its return value or the exception it raised, and the network *)
(* requests it issued.                                                     *)
(***************************************************************************)
EXTENDS Integers, Sequences, FiniteSets, TLC

VARIABLES
    system_type,  \* self.system_type: which manager class this manager is
    now,          \* datetime.now(), in whole ticks
    creds,        \* state of the credentials file at path_to_credentials
    tokenFile,    \* token_cache_<system_type>.json in the temp directory
    token,        \* self.token
    dictFile,     \* <dictionary_name>.json in the temp directory, per axis
    dicts,        \* self.process_types, self.parameters, ... per axis
    headersFile,  \* query_headers_<key>.json in the temp directory, per key
    headers_df,   \* self.headers_df
    stored,       \* per header cache key, the table the latest 200 answer stored
    fetched,      \* per axis, what the latest successful fetch of this run cached
    last,         \* the most recent call and what it did
    race,         \* two processes sharing one token cache file, step by step
    textFile      \* the text file at the file_path given to save_<axis>

vars == <<system_type, now, creds, tokenFile, token, dictFile, dicts, headersFile, headers_df,
          stored, fetched, last, race, textFile>>

----------------------------------------------------------------------------
(* Bounds of the model. *)

MaxTime == 2      \* the clock runs from 0 to MaxTime
MaxLife == 1      \* token lifetimes the server reports: 0..MaxLife seconds
MaxLen == 2       \* length of the value lists a caller passes

----------------------------------------------------------------------------
(* Strings.  Bearer tokens are opaque strings; names of vocabulary entries *)
(* are sequences of characters, because Python iterates and searches them  *)
(* when a dictionary is a bare string.                                     *)

TokenStrs == {"", "tA"}

Seqs(S, n) == UNION {[1..k -> S] : k \in 0..n}

----------------------------------------------------------------------------
(* BearerRequestToken and the token cache file. *)

NoExpiry == -1

\* self.token = None
NoneToken == [isNone |-> TRUE, token |-> "", expires_in |-> NoExpiry]

BearerRequestToken(tok, exp) == [isNone |-> FALSE, token |-> tok, expires_in |-> exp]

\* datetime.isoformat() and datetime.fromisoformat()
isoformat(t) == [iso |-> t]
fromisoformat(s) == s.iso

NoFile == [exists |-> FALSE, token |-> "", expires_in |-> isoformat(0)]

\* json.dump({"token": ..., "expires_in": ...}, f)
TokenFileOf(tk) == [exists |-> TRUE, token |-> tk.token, expires_in |-> isoformat(tk.expires_in)]

TokenFiles ==
    {NoFile} \cup
    {[exists |-> TRUE, token |-> s, expires_in |-> isoformat(e)] :
        s \in TokenStrs, e \in 0..(MaxTime + MaxLife)}

CredStates == {"ok", "missing", "one_field"}

\* The answers of POST /oauth/token.
TokenResponse(st, hasTok, hasLife, tok, life) ==
    [status |-> st, has_access_token |-> hasTok, has_expires_in |-> hasLife,
     access_token |-> tok, expires_in |-> life]

TokenResponses ==
    {TokenResponse(500, FALSE, FALSE, "", 0),
     TokenResponse(200, FALSE, TRUE, "", 0),
     TokenResponse(200, TRUE, FALSE, "tA", 0)} \cup
    {TokenResponse(200, TRUE, TRUE, s, l) : s \in TokenStrs, l \in 0..MaxLife}

\* reset_auth_token with the deletion left out.
reset_auth_token_keeps(tf) == tf

\* reset_auth_token that empties the entry instead of deleting the file.
reset_auth_token_empties(tf) == IF tf.exists THEN [tf EXCEPT !.token = ""] ELSE tf

\* reset_auth_token: the cache file after the call.
reset_auth_token(tf) == IF tf.exists THEN NoFile ELSE tf

\* The cache test with >= for >, and with a one-tick safety margin.
CacheHit_ge(tf, t) == tf.exists /\ fromisoformat(tf.expires_in) >= t
CacheHit_margin(tf, t) == tf.exists /\ fromisoformat(tf.expires_in) > t + 1

\* The cached-token branch of request_auth_token is taken.
CacheHit(tf, t) == tf.exists /\ fromisoformat(tf.expires_in) > t

\* request_auth_token that writes the invalid marker of a refused request to
\* the cache file.
request_auth_token_caches_marker(tk, tf, cr, t, resp) ==
    IF CacheHit(tf, t)
    THEN [token |-> BearerRequestToken(tf.token, fromisoformat(tf.expires_in)),
          file |-> tf, raised |-> "none", posts |-> 0]
    ELSE IF cr = "missing"
    THEN [token |-> tk, file |-> tf, raised |-> "FileNotFoundError", posts |-> 0]
    ELSE IF cr = "one_field"
    THEN [token |-> tk, file |-> tf, raised |-> "IndexError", posts |-> 0]
    ELSE IF resp.status = 200
    THEN IF ~resp.has_access_token \/ ~resp.has_expires_in
         THEN [token |-> tk, file |-> tf, raised |-> "ValueError: token fields missing", posts |-> 1]
         ELSE LET new == BearerRequestToken(resp.access_token, t + resp.expires_in)
              IN  [token |-> new, file |-> TokenFileOf(new),
                   raised |-> "none", posts |-> 1]
    ELSE [token |-> BearerRequestToken("", NoExpiry),
          file |-> TokenFileOf(BearerRequestToken("", NoExpiry)),
          raised |-> "none", posts |-> 1]

\* request_auth_token that answers an incomplete 200 like a refusal: with the
\* invalid token marker instead of an exception.
request_auth_token_marks_incomplete(tk, tf, cr, t, resp) ==
    IF CacheHit(tf, t)
    THEN [token |-> BearerRequestToken(tf.token, fromisoformat(tf.expires_in)),
          file |-> tf, raised |-> "none", posts |-> 0]
    ELSE IF cr = "missing"
    THEN [token |-> tk, file |-> tf, raised |-> "FileNotFoundError", posts |-> 0]
    ELSE IF cr = "one_field"
    THEN [token |-> tk, file |-> tf, raised |-> "IndexError", posts |-> 0]
    ELSE IF resp.status = 200 /\ resp.has_access_token /\ resp.has_expires_in
    THEN LET new == BearerRequestToken(resp.access_token, t + resp.expires_in)
         IN  [token |-> new, file |-> TokenFileOf(new), raised |-> "none", posts |-> 1]
    ELSE [token |-> BearerRequestToken("", NoExpiry), file |-> tf,
          raised |-> "none", posts |-> 1]

\* request_auth_token that keeps the token held when the endpoint refuses.
request_auth_token_keeps_token(tk, tf, cr, t, resp) ==
    IF CacheHit(tf, t)
    THEN [token |-> BearerRequestToken(tf.token, fromisoformat(tf.expires_in)),
          file |-> tf, raised |-> "none", posts |-> 0]
    ELSE IF cr = "missing"
    THEN [token |-> tk, file |-> tf, raised |-> "FileNotFoundError", posts |-> 0]
    ELSE IF cr = "one_field"
    THEN [token |-> tk, file |-> tf, raised |-> "IndexError", posts |-> 0]
    ELSE IF resp.status = 200 /\ resp.has_access_token /\ resp.has_expires_in
    THEN LET new == BearerRequestToken(resp.access_token, t + resp.expires_in)
         IN  [token |-> new, file |-> TokenFileOf(new), raised |-> "none", posts |-> 1]
    ELSE [token |-> tk, file |-> tf, raised |-> "none", posts |-> 1]

\* request_auth_token: the token, the cache file, the exception and the number
\* of POSTs of one call that starts with self.token = tk, cache file tf,
\* credentials file cr, at time t, the token endpoint answering resp.
request_auth_token(tk, tf, cr, t, resp) ==
    IF CacheHit(tf, t)
    THEN [token |-> BearerRequestToken(tf.token, fromisoformat(tf.expires_in)),
          file |-> tf, raised |-> "none", posts |-> 0]
    ELSE IF cr = "missing"
    THEN [token |-> tk, file |-> tf, raised |-> "FileNotFoundError", posts |-> 0]
    ELSE IF cr = "one_field"
    THEN [token |-> tk, file |-> tf, raised |-> "IndexError", posts |-> 0]
    ELSE IF resp.status = 200
    THEN IF ~resp.has_access_token \/ ~resp.has_expires_in
         THEN [token |-> tk, file |-> tf, raised |-> "ValueError: token fields missing", posts |-> 1]
         ELSE LET new == BearerRequestToken(resp.access_token, t + resp.expires_in)
              IN  [token |-> new, file |-> TokenFileOf(new),
                   raised |-> "none", posts |-> 1]
    ELSE [token |-> BearerRequestToken("", NoExpiry), file |-> tf,
          raised |-> "none", posts |-> 1]

\* is_authenticated: self.token and self.token.token
is_authenticated(tk) == ~tk.isNone /\ tk.token # ""

\* do_api_call without the check of the token after the inline authentication.
do_api_call_unchecked(tk, tf, cr, t, tresp, gstatus) ==
    IF is_authenticated(tk)
    THEN [token |-> tk, file |-> tf, raised |-> "none", posts |-> 0, gets |-> 1,
          getToken |-> tk, status |-> gstatus]
    ELSE LET r == request_auth_token(tk, tf, cr, t, tresp) IN
         IF r.raised # "none"
         THEN [token |-> r.token, file |-> r.file, raised |-> r.raised,
               posts |-> r.posts, gets |-> 0, getToken |-> NoneToken, status |-> 0]
         ELSE [token |-> r.token, file |-> r.file, raised |-> "none",
               posts |-> r.posts, gets |-> 1, getToken |-> r.token, status |-> gstatus]

\* do_api_call that turns every failure of the inline authentication into its
\* own "not authenticated" exception.
do_api_call_catches(tk, tf, cr, t, tresp, gstatus) ==
    IF is_authenticated(tk)
    THEN [token |-> tk, file |-> tf, raised |-> "none", posts |-> 0, gets |-> 1,
          getToken |-> tk, status |-> gstatus]
    ELSE LET r == request_auth_token(tk, tf, cr, t, tresp) IN
         IF r.raised # "none" \/ r.token.token = ""
         THEN [token |-> r.token, file |-> r.file, raised |-> "Exception: not authenticated",
               posts |-> r.posts, gets |-> 0, getToken |-> NoneToken, status |-> 0]
         ELSE [token |-> r.token, file |-> r.file, raised |-> "none",
               posts |-> r.posts, gets |-> 1, getToken |-> r.token, status |-> gstatus]

\* do_api_call that asks for a token a second time when the first request
\* left an empty token.
do_api_call_retry(tk, tf, cr, t, tresp, gstatus) ==
    IF is_authenticated(tk)
    THEN [token |-> tk, file |-> tf, raised |-> "none", posts |-> 0, gets |-> 1,
          getToken |-> tk, status |-> gstatus]
    ELSE LET r == request_auth_token(tk, tf, cr, t, tresp) IN
         IF r.raised # "none"
         THEN [token |-> r.token, file |-> r.file, raised |-> r.raised,
               posts |-> r.posts, gets |-> 0, getToken |-> NoneToken, status |-> 0]
         ELSE IF r.token.token = ""
         THEN [token |-> r.token, file |-> r.file, raised |-> "Exception: not authenticated",
               posts |-> r.posts + 1, gets |-> 0, getToken |-> NoneToken, status |-> 0]
         ELSE [token |-> r.token, file |-> r.file, raised |-> "none",
               posts |-> r.posts, gets |-> 1, getToken |-> r.token, status |-> gstatus]

\* do_api_call that trusts the token in memory only while the cache file is
\* there.
do_api_call_rechecks_cache(tk, tf, cr, t, tresp, gstatus) ==
    IF is_authenticated(tk) /\ tf.exists
    THEN [token |-> tk, file |-> tf, raised |-> "none", posts |-> 0, gets |-> 1,
          getToken |-> tk, status |-> gstatus]
    ELSE LET r == request_auth_token(tk, tf, cr, t, tresp) IN
         IF r.raised # "none"
         THEN [token |-> r.token, file |-> r.file, raised |-> r.raised,
               posts |-> r.posts, gets |-> 0, getToken |-> NoneToken, status |-> 0]
         ELSE IF r.token.token = ""
         THEN [token |-> r.token, file |-> r.file, raised |-> "Exception: not authenticated",
               posts |-> r.posts, gets |-> 0, getToken |-> NoneToken, status |-> 0]
         ELSE [token |-> r.token, file |-> r.file, raised |-> "none",
               posts |-> r.posts, gets |-> 1, getToken |-> r.token, status |-> gstatus]

\* do_api_call: authenticate inline when no token is held, then GET.
\* gstatus is the status the endpoint answers with if the GET is issued.
do_api_call(tk, tf, cr, t, tresp, gstatus) ==
    IF is_authenticated(tk)
    THEN [token |-> tk, file |-> tf, raised |-> "none", posts |-> 0, gets |-> 1,
          getToken |-> tk, status |-> gstatus]
    ELSE LET r == request_auth_token(tk, tf, cr, t, tresp) IN
         IF r.raised # "none"
         THEN [token |-> r.token, file |-> r.file, raised |-> r.raised,
               posts |-> r.posts, gets |-> 0, getToken |-> NoneToken, status |-> 0]
         ELSE IF r.token.token = ""
         THEN [token |-> r.token, file |-> r.file, raised |-> "Exception: not authenticated",
               posts |-> r.posts, gets |-> 0, getToken |-> NoneToken, status |-> 0]
         ELSE [token |-> r.token, file |-> r.file, raised |-> "none",
               posts |-> r.posts, gets |-> 1, getToken |-> r.token, status |-> gstatus]

\* The statuses a GET endpoint answers with.
GetStatuses == {200, 404}

\* The token endpoint is asked only when no token is held, the cache misses and
\* the credentials can be read: only then does its answer matter.
TokenAnswers(tk, tf, cr, t) ==
    IF ~is_authenticated(tk) /\ ~CacheHit(tf, t) /\ cr = "ok"
    THEN TokenResponses
    ELSE {CHOOSE r \in TokenResponses : r.status = 500}

----------------------------------------------------------------------------
(* Vocabulary names, dictionaries and the dictionary cache files. *)

Name_a == <<1>>
Name_b == <<2>>
Name_ab == <<1, 2>>

\* The names a caller asks for.
UserNames == {Name_a, Name_ab}

\* The vocabulary axes of the manager, in the order load_dictionaries loads them.
AxisOrder == <<"process_types", "parameters">>
Axes == {AxisOrder[i] : i \in DOMAIN AxisOrder}

\* A Python value held as a dictionary: a list of names, a bare string, or None.
ListVal(items) == [kind |-> "list", items |-> items, str |-> <<>>]
StrVal(str) == [kind |-> "str", items |-> <<>>, str |-> str]
NullVal == [kind |-> "null", items |-> <<>>, str |-> <<>>]

Range(f) == {f[i] : i \in DOMAIN f}

\* `not dictionary`
Falsy(d) ==
    \/ d.kind = "null"
    \/ d.kind = "list" /\ d.items = <<>>
    \/ d.kind = "str" /\ d.str = <<>>

\* set(db_elements): the elements of a list, the characters of a string.
SetOf(d) ==
    IF d.kind = "list" THEN Range(d.items)
    ELSE {<<d.str[i]>> : i \in DOMAIN d.str}

\* `element in db_elements`: membership in a list, substring of a string.
Contains(d, e) ==
    IF d.kind = "list" THEN e \in Range(d.items)
    ELSE \E i \in 0..Len(d.str) :
            /\ i + Len(e) <= Len(d.str)
            /\ SubSeq(d.str, i + 1, i + Len(e)) = e

\* select_elements that reports only the first missing value.
select_elements_first(user_elements, db_elements) ==
    IF db_elements.kind = "null"
    THEN [raised |-> "TypeError: not iterable", missing |-> {}, ret |-> <<>>]
    ELSE LET missing == Range(user_elements) \ SetOf(db_elements) IN
         IF missing # {}
         THEN [raised |-> "ValueError: not found",
               missing |-> {user_elements[CHOOSE i \in DOMAIN user_elements :
                               /\ user_elements[i] \in missing
                               /\ \A j \in 1..(i - 1) : user_elements[j] \notin missing]},
               ret |-> <<>>]
         ELSE [raised |-> "none", missing |-> {},
               ret |-> SelectSeq(user_elements, LAMBDA e : Contains(db_elements, e))]

\* select_elements that treats a null dictionary as an empty list.
select_elements_nullsafe(user_elements, db_elements) ==
    LET missing == Range(user_elements) \ SetOf(db_elements) IN
    IF missing # {}
    THEN [raised |-> "ValueError: not found", missing |-> missing, ret |-> <<>>]
    ELSE [raised |-> "none", missing |-> {}, ret |-> user_elements]

\* select_elements: the exception, the values its message names and the list
\* returned.
select_elements(user_elements, db_elements) ==
    IF db_elements.kind = "null"
    THEN [raised |-> "TypeError: not iterable", missing |-> {}, ret |-> <<>>]
    ELSE LET missing == Range(user_elements) \ SetOf(db_elements) IN
         IF missing # {}
         THEN [raised |-> "ValueError: not found", missing |-> missing, ret |-> <<>>]
         ELSE [raised |-> "none", missing |-> {},
               ret |-> SelectSeq(user_elements, LAMBDA e : Contains(db_elements, e))]

\* json.dump and json.load of a dictionary cache file.
json_dump(v) == [json |-> v]
json_load(text) == text.json

NoDictFile == [exists |-> FALSE, text |-> json_dump(ListVal(<<>>))]
DictFileOf(v) == [exists |-> TRUE, text |-> json_dump(v)]

\* The payloads of a dictionary endpoint: undecodable text, a list of objects
\* with their Name fields, a single object with or without a Name field, and
\* any other JSON value.
DictBody(shape, names, hasName, name) ==
    [shape |-> shape, names |-> names, hasName |-> hasName, name |-> name]

DictBodies ==
    {DictBody("badjson", <<>>, FALSE, <<>>),
     DictBody("list", <<Name_b, Name_a>>, FALSE, <<>>),
     DictBody("dict", <<>>, TRUE, Name_ab),
     DictBody("dict", <<>>, FALSE, <<>>),
     DictBody("other", <<>>, FALSE, <<>>)}

DictResponses ==
    {[status |-> 404, body |-> DictBody("badjson", <<>>, FALSE, <<>>)]} \cup
    {[status |-> 200, body |-> b] : b \in DictBodies}

\* The names get_dictionary extracts from a decoded payload.
dictionary_data(body) ==
    IF body.shape = "list" THEN ListVal(body.names)
    ELSE IF body.hasName THEN StrVal(body.name)
    ELSE ListVal(<<>>)

\* get_dictionary that ignores the force flag.
get_dictionary_unforced(tk, tf, df, cr, t, force, tresp, gresp) ==
    [token |-> tk, file |-> tf, dfile |-> df, raised |-> "none",
     ret |-> IF df.exists THEN json_load(df.text) ELSE NullVal,
     posts |-> 0, gets |-> 0, getToken |-> NoneToken]

\* get_dictionary for one dictionary name whose cache file is df: the value
\* returned, the exception, the cache file and the requests of one call.
get_dictionary(tk, tf, df, cr, t, force, tresp, gresp) ==
    IF ~force /\ df.exists
    THEN [token |-> tk, file |-> tf, dfile |-> df, raised |-> "none",
          ret |-> json_load(df.text), posts |-> 0, gets |-> 0, getToken |-> NoneToken]
    ELSE LET r == do_api_call(tk, tf, cr, t, tresp, gresp.status)
             base == [token |-> r.token, file |-> r.file, dfile |-> df,
                      raised |-> r.raised, ret |-> NullVal,
                      posts |-> r.posts, gets |-> r.gets, getToken |-> r.getToken]
         IN  IF r.raised # "none" THEN base
             ELSE IF r.status # 200 THEN base
             ELSE IF gresp.body.shape = "badjson" THEN base
             ELSE IF gresp.body.shape = "other"
             THEN [base EXCEPT !.raised = "ValueError: unexpected JSON structure"]
             ELSE [base EXCEPT !.dfile = DictFileOf(dictionary_data(gresp.body)),
                               !.ret = dictionary_data(gresp.body)]

\* The state load_dictionaries threads through its get_dictionary calls.
LoadState(tk, tf, dfs, ds) ==
    [token |-> tk, file |-> tf, dictFile |-> dfs, dicts |-> ds, raised |-> "none",
     posts |-> 0, gets |-> 0, getToken |-> NoneToken,
     wrote |-> [a \in Axes |-> FALSE]]

\* One line of load_dictionaries: self.<axis> = self.get_<axis>(force).
LoadAxis(S, axis, cr, t, force, tresp, gresps) ==
    IF S.raised # "none" THEN S
    ELSE CHOOSE out \in {
           [token |-> r.token, file |-> r.file,
              dictFile |-> [S.dictFile EXCEPT ![axis] = r.dfile],
              dicts |-> IF r.raised = "none"
                        THEN [S.dicts EXCEPT ![axis] = r.ret] ELSE S.dicts,
              raised |-> r.raised,
              posts |-> S.posts + r.posts, gets |-> S.gets + r.gets,
              getToken |-> IF r.gets > 0 THEN r.getToken ELSE S.getToken,
              wrote |-> [S.wrote EXCEPT ![axis] =
                            r.raised = "none" /\ r.gets = 1 /\ r.ret.kind # "null"]] :
           r \in {get_dictionary(S.token, S.file, S.dictFile[axis], cr, t, force,
                                 tresp, gresps[axis])}} : TRUE

RECURSIVE LoadFrom(_, _, _, _, _, _, _)
LoadFrom(i, S, cr, t, force, tresp, gresps) ==
    IF i > Len(AxisOrder) THEN S
    ELSE CHOOSE out \in {LoadFrom(i + 1, T, cr, t, force, tresp, gresps) :
                            T \in {LoadAxis(S, AxisOrder[i], cr, t, force, tresp, gresps)}} :
            TRUE

\* load_dictionaries: every axis in turn, stopping at the first exception.
load_dictionaries(S, cr, t, force, tresp, gresps) ==
    LoadFrom(1, S, cr, t, force, tresp, gresps)

\* check_dictionary that reloads whatever the dictionary holds.
check_dictionary_always(S, dictionary, cr, t, tresp, gresps) ==
    load_dictionaries(S, cr, t, FALSE, tresp, gresps)

\* check_dictionary whose reload bypasses the cache files.
check_dictionary_forced(S, dictionary, cr, t, tresp, gresps) ==
    IF Falsy(dictionary)
    THEN load_dictionaries(S, cr, t, TRUE, tresp, gresps)
    ELSE S

\* check_dictionary: reload every dictionary when the one passed is empty.
check_dictionary(S, dictionary, cr, t, tresp, gresps) ==
    IF Falsy(dictionary)
    THEN load_dictionaries(S, cr, t, FALSE, tresp, gresps)
    ELSE S

----------------------------------------------------------------------------
(* The header catalog: headers_df, its cache file and select_header. *)

\* Column descriptions a caller asks for, and the query variables of the server.
Descs == {"Parameter", "Parameter value", "Parameter unit"}
Var_param == <<3>>
Var_param_alt == <<3, 3>>
Var_param_val == <<4>>

HeaderRecord(desc, var) == [ColumnDesc |-> desc, ColumnVariable |-> var]

\* pd.DataFrame(records): the column names and one tuple of cells per record.
DataFrame(records) ==
    [columns |-> IF records = <<>> THEN <<>> ELSE <<"ColumnDesc", "ColumnVariable">>,
     data |-> [i \in DOMAIN records |->
                  <<records[i].ColumnDesc, records[i].ColumnVariable>>]]

\* df.to_dict(orient="records")
to_dict_records(df) ==
    [i \in DOMAIN df.data |-> HeaderRecord(df.data[i][1], df.data[i][2])]

\* df.empty
empty(df) == Len(df.data) = 0 \/ Len(df.columns) = 0

\* The cache keys: the fixed key of the FIVE manager, and the diseases argument
\* of the Cytocon manager.
FiveKey == "5db"
CytoconKeys == {"dA", "dB"}
HeaderKeys == {FiveKey} \cup CytoconKeys

\* The ghost record of the table the latest 200 answer stored under a key.
NotStored == [done |-> FALSE, df |-> DataFrame(<<>>)]

NoHeadersFile == [exists |-> FALSE, records |-> <<>>]
HeadersFileOf(df) == [exists |-> TRUE, records |-> to_dict_records(df)]

\* The payloads of the headers endpoint: undecodable text, a list of records or
\* a single record.
HeaderBody(shape, records, record) ==
    [shape |-> shape, records |-> records, record |-> record]

NoRecord == HeaderRecord("", <<>>)

HeaderBodies ==
    {HeaderBody("badjson", <<>>, NoRecord),
     HeaderBody("list", <<>>, NoRecord),
     HeaderBody("list", <<HeaderRecord("Parameter", Var_param),
                          HeaderRecord("Parameter value", Var_param_val)>>, NoRecord),
     HeaderBody("list", <<HeaderRecord("Parameter", Var_param),
                          HeaderRecord("Parameter", Var_param_alt)>>, NoRecord),
     HeaderBody("record", <<>>, HeaderRecord("Parameter value", Var_param_val))}

NoHeaderAnswer == [status |-> 404, body |-> HeaderBody("badjson", <<>>, NoRecord)]

HeaderResponses ==
    {NoHeaderAnswer} \cup {[status |-> 200, body |-> b] : b \in HeaderBodies}

\* pd.DataFrame(response_content) for a list, pd.DataFrame([response_content])
\* for anything else.
response_table(body) ==
    IF body.shape = "list" THEN DataFrame(body.records)
    ELSE DataFrame(<<body.record>>)

\* query_headers that stores the table in the manager only.
query_headers_unsaved(tk, tf, hf, df, cr, t, force, tresp, hresp) ==
    IF ~force /\ hf.exists
    THEN [token |-> tk, file |-> tf, hfile |-> hf, df |-> DataFrame(hf.records),
          returnsNone |-> FALSE, raised |-> "none", posts |-> 0, gets |-> 0]
    ELSE CHOOSE out \in {
           IF r.raised # "none" \/ r.status # 200
           THEN [token |-> r.token, file |-> r.file, hfile |-> hf, df |-> df,
                 returnsNone |-> r.raised = "none", raised |-> r.raised,
                 posts |-> r.posts, gets |-> r.gets]
           ELSE IF hresp.body.shape = "badjson"
           THEN [token |-> r.token, file |-> r.file, hfile |-> hf, df |-> df,
                 returnsNone |-> FALSE, raised |-> "JSONDecodeError",
                 posts |-> r.posts, gets |-> r.gets]
           ELSE [token |-> r.token, file |-> r.file, hfile |-> hf,
                 df |-> response_table(hresp.body),
                 returnsNone |-> FALSE, raised |-> "none",
                 posts |-> r.posts, gets |-> r.gets] :
           r \in {do_api_call(tk, tf, cr, t, tresp, hresp.status)}} : TRUE

\* FIVEDBManager.query_headers: the catalog held, the cache file, the value
\* returned (returnsNone: the call returned None) and the requests of one call.
query_headers(tk, tf, hf, df, cr, t, force, tresp, hresp) ==
    IF ~force /\ hf.exists
    THEN [token |-> tk, file |-> tf, hfile |-> hf, df |-> DataFrame(hf.records),
          returnsNone |-> FALSE, raised |-> "none", posts |-> 0, gets |-> 0]
    ELSE CHOOSE out \in {
           IF r.raised # "none" \/ r.status # 200
           THEN [token |-> r.token, file |-> r.file, hfile |-> hf, df |-> df,
                 returnsNone |-> r.raised = "none", raised |-> r.raised,
                 posts |-> r.posts, gets |-> r.gets]
           ELSE IF hresp.body.shape = "badjson"
           THEN [token |-> r.token, file |-> r.file, hfile |-> hf, df |-> df,
                 returnsNone |-> FALSE, raised |-> "JSONDecodeError",
                 posts |-> r.posts, gets |-> r.gets]
           ELSE [token |-> r.token, file |-> r.file,
                 hfile |-> HeadersFileOf(response_table(hresp.body)),
                 df |-> response_table(hresp.body),
                 returnsNone |-> FALSE, raised |-> "none",
                 posts |-> r.posts, gets |-> r.gets] :
           r \in {do_api_call(tk, tf, cr, t, tresp, hresp.status)}} : TRUE

\* CytoconDBManager.query_headers(diseases, force): the same steps on the
\* cache file whose name carries the diseases argument.
cytocon_query_headers(tk, tf, hf, df, cr, t, diseases, force, tresp, hresp) ==
    query_headers(tk, tf, hf, df, cr, t, force, tresp, hresp)

\* The rows of df whose ColumnDesc is desc, in row order.
Matches(df, desc) == SelectSeq(df.data, LAMBDA row : row[1] = desc)

\* select_header that skips a description without a matching row.
select_header_partial(df, column_descriptions) ==
    IF empty(df)
    THEN [raised |-> "ValueError: headers not loaded", desc |-> "", ret |-> <<>>]
    ELSE LET found == SelectSeq(column_descriptions,
                                LAMBDA d : Matches(df, d) # <<>>)
         IN  [raised |-> "none", desc |-> "",
              ret |-> [i \in DOMAIN found |-> Matches(df, found[i])[1][2]]]

\* select_header: the exception, the description its message names and the
\* list of variables returned.
select_header(df, column_descriptions) ==
    IF empty(df)
    THEN [raised |-> "ValueError: headers not loaded", desc |-> "", ret |-> <<>>]
    ELSE LET unmatched == {i \in DOMAIN column_descriptions :
                              Matches(df, column_descriptions[i]) = <<>>}
         IN  IF unmatched # {}
             THEN [raised |-> "ValueError: column description not found",
                   desc |-> column_descriptions[CHOOSE i \in unmatched :
                                                   \A j \in unmatched : i <= j],
                   ret |-> <<>>]
             ELSE [raised |-> "none", desc |-> "",
                   ret |-> [i \in DOMAIN column_descriptions |->
                              Matches(df, column_descriptions[i])[1][2]]]

----------------------------------------------------------------------------
(* query_data. *)

Comma == <<0>>

\* A join that puts no delimiter between the values.
RECURSIVE join_undelimited(_)
join_undelimited(values) ==
    IF values = <<>> THEN <<>> ELSE values[1] \o join_undelimited(Tail(values))

\* ','.join(values)
RECURSIVE join(_)
join(values) ==
    IF values = <<>> THEN <<>>
    ELSE IF Len(values) = 1 THEN values[1]
    ELSE values[1] \o Comma \o join(Tail(values))

\* The params of the GET that query_data builds.
QueryParams(filters, headers, wstat_switch) ==
    [filters |-> [a \in Axes |-> join(filters[a])],
     headers |-> join(headers), wstatSwitch |-> wstat_switch]

NoParams == QueryParams([a \in Axes |-> <<>>], <<>>, "")

\* The payloads of the query endpoint: undecodable text or a JSON array of row
\* objects.
QueryBody(shape, rows) == [shape |-> shape, rows |-> rows]

QueryBodies ==
    {QueryBody("badjson", <<>>),
     QueryBody("rows", <<>>),
     QueryBody("rows", <<"row1", "row2">>)}

NoQueryAnswer == [status |-> 404, body |-> QueryBody("badjson", <<>>)]

QueryResponses ==
    {NoQueryAnswer} \cup {[status |-> 200, body |-> b] : b \in QueryBodies}

\* query_call that lets a failed GET surface as an exception.
query_call_raising(tk, tf, cr, t, params, tresp, qresp) ==
    CHOOSE out \in {
      [token |-> r.token, file |-> r.file,
       raised |-> IF r.raised = "none" /\ r.status # 200
                  THEN "HTTPError" ELSE r.raised,
       posts |-> r.posts, gets |-> r.gets, getToken |-> r.getToken,
       params |-> IF r.gets = 1 THEN params ELSE NoParams,
       returnsNone |-> FALSE,
       table |-> IF r.raised = "none" /\ r.status = 200 /\ qresp.body.shape = "rows"
                 THEN qresp.body.rows ELSE <<>>,
       status |-> r.status] :
      r \in {do_api_call(tk, tf, cr, t, tresp, qresp.status)}} : TRUE

\* The tail of both query_data methods, after params is built: the GET through
\* do_api_call, then the table of a 200 answer or None (returnsNone).
query_call(tk, tf, cr, t, params, tresp, qresp) ==
    CHOOSE out \in {
      [token |-> r.token, file |-> r.file,
       raised |-> IF r.raised = "none" /\ r.status = 200 /\ qresp.body.shape = "badjson"
                  THEN "JSONDecodeError" ELSE r.raised,
       posts |-> r.posts, gets |-> r.gets, getToken |-> r.getToken,
       params |-> IF r.gets = 1 THEN params ELSE NoParams,
       returnsNone |-> r.raised = "none" /\ r.status # 200,
       table |-> IF r.raised = "none" /\ r.status = 200 /\ qresp.body.shape = "rows"
                 THEN qresp.body.rows ELSE <<>>,
       status |-> r.status] :
      r \in {do_api_call(tk, tf, cr, t, tresp, qresp.status)}} : TRUE

\* FIVEDBManager.query_data
query_data(tk, tf, cr, t, filters, headers, wstat_switch, tresp, qresp) ==
    query_call(tk, tf, cr, t, QueryParams(filters, headers, wstat_switch), tresp, qresp)

\* The filter axes of the Cytocon manager, in the order query_data names them.
CytoconAxisOrder == <<"tissue_types", "diseases">>
CytoconAxes == Range(CytoconAxisOrder)

CytoconQueryParams(filters, headers, wstat_switch) ==
    [filters |-> [a \in CytoconAxes |-> join(filters[a])],
     headers |-> join(headers), wstatSwitch |-> wstat_switch]

\* CytoconDBManager.query_data
cytocon_query_data(tk, tf, cr, t, filters, headers, wstat_switch, tresp, qresp) ==
    query_call(tk, tf, cr, t, CytoconQueryParams(filters, headers, wstat_switch),
               tresp, qresp)

----------------------------------------------------------------------------
(* The record of a call. *)

\* The text file a save_<axis> call writes, and "\n".join over a dictionary: the
\* names of a list, the characters of a string.
Newline == <<9>>

NoTextFile == [exists |-> FALSE, text |-> <<>>]

Lines(dictionary) ==
    IF dictionary.kind = "list" THEN dictionary.items
    ELSE [i \in DOMAIN dictionary.str |-> <<dictionary.str[i]>>]

RECURSIVE join_lines(_)
join_lines(values) ==
    IF values = <<>> THEN <<>>
    ELSE IF Len(values) = 1 THEN values[1]
    ELSE values[1] \o Newline \o join_lines(Tail(values))

\* save_dictionary_to_text_file: open(file_path, "w") creates or truncates the
\* file and the joined text is written; None fails in the join after the open,
\* a path that cannot be opened fails in the open, and both failures are only
\* printed.
save_dictionary_to_text_file(dictionary, tf, writable) ==
    IF ~writable THEN tf
    ELSE IF dictionary.kind = "null" THEN [exists |-> TRUE, text |-> <<>>]
    ELSE [exists |-> TRUE, text |-> join_lines(Lines(dictionary))]

\* The ghost record of the last successful fetch of a dictionary.
NotFetched == [done |-> FALSE, val |-> NullVal]

NoCall ==
    [op |-> "init", raised |-> "none", posts |-> 0, gets |-> 0,
     afterReset |-> FALSE, resetPre |-> NoFile,
     preFile |-> NoFile, preToken |-> NoneToken, ret |-> NoneToken,
     getToken |-> NoneToken, status |-> 0, shape |-> "",
     tokenStatus |-> 0, tokenComplete |-> FALSE, afterAuthFailure |-> FALSE,
     axis |-> "", force |-> FALSE, values |-> <<>>,
     reloadRaised |-> "none", preDict |-> NullVal, preDictFile |-> NoDictFile,
     preDicts |-> [a \in Axes |-> NullVal],
     preDictFiles |-> [a \in Axes |-> NoDictFile],
     preTextFile |-> NoTextFile, writable |-> FALSE,
     preFetched |-> NotFetched, dret |-> NullVal, sel |-> <<>>, missing |-> {},
     descs |-> <<>>, hsel |-> <<>>, desc |-> "", preHeaders |-> DataFrame(<<>>),
     body |-> DictBody("badjson", <<>>, FALSE, <<>>),
     returnsNone |-> FALSE, key |-> "", preHeadersFile |-> NoHeadersFile,
     preStored |-> NotStored,
     filters |-> [a \in Axes |-> <<>>], headers |-> <<>>, wstat_switch |-> "",
     params |-> NoParams, rows |-> <<>>, table |-> <<>>]

----------------------------------------------------------------------------
(* Actions of the authentication layer. *)

\* Time passes between two calls.
Tick ==
    /\ now < MaxTime
    /\ now' = now + 1
    /\ last' = [NoCall EXCEPT !.op = "tick"]
    /\ UNCHANGED <<textFile, stored, race, system_type, creds, tokenFile, token, dictFile, dicts, headersFile,
                   headers_df, fetched>>

Call_reset_auth_token ==
    /\ tokenFile' = reset_auth_token(tokenFile)
    /\ last' = [NoCall EXCEPT !.op = "reset_auth_token",
                              !.afterReset = (last.op = "reset_auth_token"),
                              !.resetPre = IF last.op = "reset_auth_token"
                                           THEN last.preFile ELSE NoFile,
                              !.preFile = tokenFile,
                              !.preToken = token]
    /\ UNCHANGED <<textFile, stored, race, system_type, now, creds, token, dictFile, dicts, headersFile,
                   headers_df, fetched>>

Call_request_auth_token ==
    \E resp \in TokenResponses :
        LET r == request_auth_token(token, tokenFile, creds, now, resp) IN
        /\ token' = r.token
        /\ tokenFile' = r.file
        /\ last' = [NoCall EXCEPT !.op = "request_auth_token",
                                  !.raised = r.raised,
                                  !.posts = r.posts,
                                  !.tokenStatus = IF r.posts = 1 THEN resp.status ELSE 0,
                                  !.tokenComplete = /\ r.posts = 1
                                                    /\ resp.has_access_token
                                                    /\ resp.has_expires_in,
                                  !.afterReset = (last.op = "reset_auth_token"),
                                  !.resetPre = IF last.op = "reset_auth_token"
                                               THEN last.preFile ELSE NoFile,
                                  !.preFile = tokenFile,
                                  !.preToken = token,
                                  !.ret = IF r.raised = "none" THEN r.token ELSE NoneToken]
        /\ UNCHANGED <<textFile, stored, race, system_type, now, creds, dictFile, dicts, headersFile,
                       headers_df, fetched>>

\* The call recorded in l sent a token request that was refused (non-200) or
\* answered without the access token or the lifetime.
AuthFailed(l) ==
    /\ l.op \in {"request_auth_token", "do_api_call"}
    /\ l.posts = 1
    /\ (l.tokenStatus # 200 \/ ~l.tokenComplete)

Call_do_api_call ==
    \E tresp \in TokenAnswers(token, tokenFile, creds, now), gstatus \in GetStatuses :
        LET r == do_api_call(token, tokenFile, creds, now, tresp, gstatus) IN
        /\ token' = r.token
        /\ tokenFile' = r.file
        /\ last' = [NoCall EXCEPT !.op = "do_api_call",
                                  !.afterAuthFailure = AuthFailed(last),
                                  !.afterReset = (last.op = "reset_auth_token"),
                                  !.raised = r.raised,
                                  !.posts = r.posts,
                                  !.tokenStatus = IF r.posts = 1 THEN tresp.status ELSE 0,
                                  !.tokenComplete = /\ r.posts = 1
                                                    /\ tresp.has_access_token
                                                    /\ tresp.has_expires_in,
                                  !.gets = r.gets,
                                  !.preFile = tokenFile,
                                  !.preToken = token,
                                  !.getToken = r.getToken,
                                  !.status = r.status]
        /\ UNCHANGED <<textFile, stored, race, system_type, now, creds, dictFile, dicts, headersFile,
                       headers_df, fetched>>

----------------------------------------------------------------------------
(* Two processes of the same system type working on one token cache file.
   Each runs one method; a step is one file-system call (existence check,
   open and read, open for writing, write, remove) or the token request. *)

Procs == {1, 2}

\* The path token_cache_<system_type>.json: whether a file is there, which file
\* it is, and whether its text is a complete entry or still empty after
\* open(path, "w") truncated or created it.
AbsentPath == [present |-> FALSE, inode |-> 0, complete |-> FALSE, entry |-> NoFile]

EntryPath(inode, entry) ==
    [present |-> TRUE, inode |-> inode, complete |-> TRUE, entry |-> entry]

\* A process: the method it runs, where it stands in it, its self.token, the
\* file its open handle refers to and the exception that ended it.
Proc(op, pc) ==
    [op |-> op, pc |-> pc, token |-> NoneToken, handle |-> 0, raised |-> "none",
     sawPartial |-> FALSE]

NoWrite == [proc |-> 0, kind |-> "none"]

NoRace ==
    [path |-> AbsentPath, inodes |-> 0,
     procs |-> [p \in Procs |-> Proc("none", "done")], lastWrite |-> NoWrite]

RaceStep(p, proc) == [race EXCEPT !.procs[p] = proc]

\* request_auth_token: os.path.exists(token_file_path)
Race_request_exists ==
    \E p \in Procs :
        /\ race.procs[p].op = "request_auth_token" /\ race.procs[p].pc = "exists"
        /\ race' = RaceStep(p, [race.procs[p] EXCEPT
                                   !.pc = IF race.path.present THEN "read" ELSE "post"])
        /\ UNCHANGED <<textFile, stored, system_type, now, creds, tokenFile, token, dictFile, dicts,
                       headersFile, headers_df, fetched, last>>

\* request_auth_token: open(token_file_path, "r"), json.load and the expiry test
Race_request_read ==
    \E p \in Procs :
        /\ race.procs[p].op = "request_auth_token" /\ race.procs[p].pc = "read"
        /\ race' = RaceStep(p,
              IF ~race.path.present
              THEN [race.procs[p] EXCEPT !.pc = "done",
                                         !.raised = "FileNotFoundError: token cache"]
              ELSE IF ~race.path.complete
              THEN [race.procs[p] EXCEPT !.pc = "done", !.sawPartial = TRUE,
                                         !.raised = "JSONDecodeError: token cache"]
              ELSE IF CacheHit(race.path.entry, now)
              THEN [race.procs[p] EXCEPT
                      !.pc = "done",
                      !.token = BearerRequestToken(race.path.entry.token,
                                   fromisoformat(race.path.entry.expires_in))]
              ELSE [race.procs[p] EXCEPT !.pc = "post"])
        /\ UNCHANGED <<textFile, stored, system_type, now, creds, tokenFile, token, dictFile, dicts,
                       headersFile, headers_df, fetched, last>>

\* request_auth_token: the credentials, the POST and the test of its answer
Race_request_post ==
    \E p \in Procs : \E resp \in TokenResponses :
        /\ race.procs[p].op = "request_auth_token" /\ race.procs[p].pc = "post"
        /\ race' = RaceStep(p,
              IF creds = "missing"
              THEN [race.procs[p] EXCEPT !.pc = "done", !.raised = "FileNotFoundError"]
              ELSE IF creds = "one_field"
              THEN [race.procs[p] EXCEPT !.pc = "done", !.raised = "IndexError"]
              ELSE IF resp.status # 200
              THEN [race.procs[p] EXCEPT !.pc = "done",
                                         !.token = BearerRequestToken("", NoExpiry)]
              ELSE IF ~resp.has_access_token \/ ~resp.has_expires_in
              THEN [race.procs[p] EXCEPT !.pc = "done",
                                         !.raised = "ValueError: token fields missing"]
              ELSE [race.procs[p] EXCEPT
                      !.pc = "open_w",
                      !.token = BearerRequestToken(resp.access_token,
                                                   now + resp.expires_in)])
        /\ UNCHANGED <<textFile, stored, system_type, now, creds, tokenFile, token, dictFile, dicts,
                       headersFile, headers_df, fetched, last>>

\* request_auth_token: open(token_file_path, "w") truncates the file that is
\* there or creates a new one
Race_request_open_w ==
    \E p \in Procs :
        /\ race.procs[p].op = "request_auth_token" /\ race.procs[p].pc = "open_w"
        /\ \E inode \in {IF race.path.present THEN race.path.inode ELSE race.inodes + 1} :
              race' = [race EXCEPT
                         !.path = [present |-> TRUE, inode |-> inode,
                                   complete |-> FALSE, entry |-> NoFile],
                         !.inodes = IF race.path.present THEN @ ELSE @ + 1,
                         !.procs[p] = [@ EXCEPT !.pc = "dump", !.handle = inode]]
        /\ UNCHANGED <<textFile, stored, system_type, now, creds, tokenFile, token, dictFile, dicts,
                       headersFile, headers_df, fetched, last>>

\* request_auth_token: json.dump and the close of the file opened for writing;
\* the text goes to the file the handle refers to, which is no longer at the
\* path when another process removed it in between
Race_request_dump ==
    \E p \in Procs :
        /\ race.procs[p].op = "request_auth_token" /\ race.procs[p].pc = "dump"
        /\ race' = [race EXCEPT
                       !.path = IF race.path.present /\ race.path.inode = race.procs[p].handle
                                THEN EntryPath(race.path.inode,
                                               TokenFileOf(race.procs[p].token))
                                ELSE @,
                       !.lastWrite = [proc |-> p, kind |-> "dump"],
                       !.procs[p] = [@ EXCEPT !.pc = "done"]]
        /\ UNCHANGED <<textFile, stored, system_type, now, creds, tokenFile, token, dictFile, dicts,
                       headersFile, headers_df, fetched, last>>

\* reset_auth_token: os.path.exists(token_file_path)
Race_reset_exists ==
    \E p \in Procs :
        /\ race.procs[p].op = "reset_auth_token" /\ race.procs[p].pc = "exists"
        /\ race' = RaceStep(p, [race.procs[p] EXCEPT
                                   !.pc = IF race.path.present THEN "remove" ELSE "done"])
        /\ UNCHANGED <<textFile, stored, system_type, now, creds, tokenFile, token, dictFile, dicts,
                       headersFile, headers_df, fetched, last>>

\* reset_auth_token: os.remove(token_file_path)
Race_reset_remove ==
    \E p \in Procs :
        /\ race.procs[p].op = "reset_auth_token" /\ race.procs[p].pc = "remove"
        /\ race' = IF race.path.present
                   THEN [race EXCEPT !.path = AbsentPath,
                                     !.lastWrite = [proc |-> p, kind |-> "remove"],
                                     !.procs[p] = [@ EXCEPT !.pc = "done"]]
                   ELSE RaceStep(p, [race.procs[p] EXCEPT
                                       !.pc = "done",
                                       !.raised = "FileNotFoundError: token cache"])
        /\ UNCHANGED <<textFile, stored, system_type, now, creds, tokenFile, token, dictFile, dicts,
                       headersFile, headers_df, fetched, last>>

\* self.system_type: FIVEDBManager leaves the base class's "unknown",
\* CytoconDBManager sets "cytocon".
FiveType == "unknown"
CytoconType == "cytocon"

\* A manager right after construction, at time 0.
NewManager ==
    /\ now = 0
    /\ token = NoneToken
    /\ dicts = [a \in Axes |-> ListVal(<<>>)]
    /\ headers_df = DataFrame(<<>>)
    /\ fetched = [a \in Axes |-> NotFetched]
    /\ stored = [k \in HeaderKeys |-> NotStored]
    /\ last = NoCall
    /\ race = NoRace
    /\ textFile = NoTextFile

\* The authentication layer alone: any token cache file of an earlier run, no
\* dictionary or header cache.
InitAuth ==
    /\ NewManager
    /\ system_type = FiveType
    /\ creds \in CredStates
    /\ tokenFile \in TokenFiles
    /\ dictFile = [a \in Axes |-> NoDictFile]
    /\ headersFile = [k \in HeaderKeys |-> NoHeadersFile]

NextAuth ==
    \/ Tick
    \/ Call_reset_auth_token
    \/ Call_request_auth_token
    \/ Call_do_api_call

SpecAuth == InitAuth /\ [][NextAuth]_vars

----------------------------------------------------------------------------
(* Actions of the dictionary layer. *)

\* The answers of the servers that matter to a call.  The token endpoint is
\* asked only by a call that fetches while no token is held; a dictionary
\* endpoint only when its cache file is bypassed or missing and the call can
\* come by a token.
NoTokenAnswer == CHOOSE r \in TokenResponses : r.status = 500
NoDictAnswer == CHOOSE r \in DictResponses : r.status = 404

TokenAnswersIf(fetches) ==
    IF fetches THEN TokenAnswers(token, tokenFile, creds, now) ELSE {NoTokenAnswer}

CanGet(tresp) ==
    \/ is_authenticated(token)
    \/ \E r \in {request_auth_token(token, tokenFile, creds, now, tresp)} :
          r.raised = "none" /\ r.token.token # ""

DictAnswers(df, force, tresp) ==
    IF (force \/ ~df.exists) /\ CanGet(tresp) THEN DictResponses ELSE {NoDictAnswer}

AllDictAnswers(force, tresp) ==
    IF CanGet(tresp)
    THEN {g \in [Axes -> DictResponses] :
            \A a \in Axes : (~force /\ dictFile[a].exists) => g[a] = NoDictAnswer}
    ELSE {[a \in Axes |-> NoDictAnswer]}

\* load_dictionaries(force) asks the server for at least one dictionary.
LoadFetches(force) == force \/ \E a \in Axes : ~dictFile[a].exists

\* The caller is between two calls.
Idle == last.op \in {"init", "return"}

\* The caller takes the result of the call and goes on.
Return ==
    /\ ~Idle
    /\ last' = [NoCall EXCEPT !.op = "return"]
    /\ UNCHANGED <<textFile, stored, race, system_type, now, creds, tokenFile, token, dictFile, dicts, headersFile,
                   headers_df, fetched>>

\* get_process_types(force), get_parameters(force), ...
Call_get_dictionary ==
    Idle /\ \E axis \in Axes, force \in BOOLEAN :
    \E tresp \in TokenAnswersIf(force \/ ~dictFile[axis].exists) :
    \E gresp \in DictAnswers(dictFile[axis], force, tresp) :
    \E r \in {get_dictionary(token, tokenFile, dictFile[axis], creds, now, force,
                              tresp, gresp)} :
        LET wrote == r.raised = "none" /\ r.gets = 1 /\ r.ret.kind # "null" IN
        /\ token' = r.token
        /\ tokenFile' = r.file
        /\ dictFile' = [dictFile EXCEPT ![axis] = r.dfile]
        /\ fetched' = [fetched EXCEPT ![axis] =
                          IF wrote THEN [done |-> TRUE, val |-> r.ret] ELSE @]
        /\ last' = [NoCall EXCEPT !.op = "get_dictionary",
                                  !.axis = axis, !.force = force,
                                  !.raised = r.raised,
                                  !.posts = r.posts, !.gets = r.gets,
                                  !.preToken = token,
                                  !.preDictFile = dictFile[axis],
                                  !.preFetched = fetched[axis],
                                  !.status = IF r.gets = 1 THEN gresp.status ELSE 0,
                                  !.shape = IF r.gets = 1 THEN gresp.body.shape ELSE "",
                                  !.body = IF r.gets = 1 THEN gresp.body ELSE @,
                                  !.dret = r.ret]
        /\ UNCHANGED <<textFile, stored, race, system_type, now, creds, dicts, headersFile, headers_df>>

\* The per-axis fetch record after a load that ended in S.
FetchedAfter(S, force) ==
    [a \in Axes |->
        IF S.wrote[a]
        THEN [done |-> TRUE, val |-> json_load(S.dictFile[a].text)]
        ELSE fetched[a]]

Call_load_dictionaries ==
    Idle /\ \E force \in BOOLEAN :
    \E tresp \in TokenAnswersIf(LoadFetches(force)) :
    \E gresps \in AllDictAnswers(force, tresp) :
    \E S \in {load_dictionaries(LoadState(token, tokenFile, dictFile, dicts),
                                 creds, now, force, tresp, gresps)} :
        /\ token' = S.token
        /\ tokenFile' = S.file
        /\ dictFile' = S.dictFile
        /\ dicts' = S.dicts
        /\ fetched' = FetchedAfter(S, force)
        /\ last' = [NoCall EXCEPT !.op = "load_dictionaries",
                                  !.force = force,
                                  !.raised = S.raised,
                                  !.posts = S.posts, !.gets = S.gets,
                                  !.preToken = token]
        /\ UNCHANGED <<textFile, stored, race, system_type, now, creds, headersFile, headers_df>>

\* select_process_types(values), select_parameters(values), ...
Call_select ==
    Idle /\ \E axis \in Axes :
    \E tresp \in TokenAnswersIf(Falsy(dicts[axis]) /\ LoadFetches(FALSE)) :
    \E gresps \in (IF Falsy(dicts[axis]) THEN AllDictAnswers(FALSE, tresp)
                   ELSE {[a \in Axes |-> NoDictAnswer]}) :
    \E S \in {check_dictionary(LoadState(token, tokenFile, dictFile, dicts),
                                dicts[axis], creds, now, tresp, gresps)} :
    \E values \in Seqs(UserNames, MaxLen) :
    \E r \in {select_elements(values, S.dicts[axis])} :
        /\ token' = S.token
        /\ tokenFile' = S.file
        /\ dictFile' = S.dictFile
        /\ dicts' = S.dicts
        /\ fetched' = FetchedAfter(S, FALSE)
        /\ last' = [NoCall EXCEPT !.op = "select",
                                  !.axis = axis, !.values = values,
                                  !.raised = IF S.raised # "none" THEN S.raised
                                             ELSE r.raised,
                                  !.posts = S.posts, !.gets = S.gets,
                                  !.preToken = token,
                                  !.reloadRaised = S.raised,
                                  !.preDict = dicts[axis],
                                  !.preDictFile = dictFile[axis],
                                  !.preDicts = dicts,
                                  !.preDictFiles = dictFile,
                                  !.preTextFile = textFile,
                                  !.sel = IF S.raised # "none" THEN <<>> ELSE r.ret,
                                  !.missing = IF S.raised # "none" THEN {}
                                              ELSE r.missing]
        /\ UNCHANGED <<textFile, stored, race, system_type, now, creds, headersFile, headers_df>>

\* save_process_types(file_path), save_parameters(file_path), ...
Call_save ==
    Idle /\ \E axis \in Axes, writable \in BOOLEAN :
    \E tresp \in TokenAnswersIf(Falsy(dicts[axis]) /\ LoadFetches(FALSE)) :
    \E gresps \in (IF Falsy(dicts[axis]) THEN AllDictAnswers(FALSE, tresp)
                   ELSE {[a \in Axes |-> NoDictAnswer]}) :
    \E S \in {check_dictionary(LoadState(token, tokenFile, dictFile, dicts),
                                dicts[axis], creds, now, tresp, gresps)} :
        /\ token' = S.token
        /\ tokenFile' = S.file
        /\ dictFile' = S.dictFile
        /\ dicts' = S.dicts
        /\ fetched' = FetchedAfter(S, FALSE)
        /\ textFile' = IF S.raised # "none" THEN textFile
                       ELSE save_dictionary_to_text_file(S.dicts[axis], textFile,
                                                         writable)
        /\ last' = [NoCall EXCEPT !.op = "save",
                                  !.axis = axis, !.writable = writable,
                                  !.raised = S.raised,
                                  !.posts = S.posts, !.gets = S.gets,
                                  !.preToken = token,
                                  !.reloadRaised = S.raised,
                                  !.preDict = dicts[axis],
                                  !.preDictFile = dictFile[axis],
                                  !.preDicts = dicts,
                                  !.preDictFiles = dictFile,
                                  !.preTextFile = textFile]
        /\ UNCHANGED <<stored, race, system_type, now, creds, headersFile, headers_df>>

HeaderAnswers(hf, force, tresp) ==
    IF (force \/ ~hf.exists) /\ CanGet(tresp) THEN HeaderResponses ELSE {NoHeaderAnswer}

\* The ghost record after a query_headers call that returned r.
StoredAfter(key, r, hresp) ==
    [stored EXCEPT ![key] =
        IF r.raised = "none" /\ r.gets = 1 /\ ~r.returnsNone
        THEN [done |-> TRUE, df |-> r.df] ELSE @]

\* What a query_headers call on cache key `key` records.
HeadersCall(op, key, force, r, hresp) ==
    [NoCall EXCEPT !.op = op, !.key = key,
                   !.force = force,
                   !.raised = r.raised,
                   !.posts = r.posts, !.gets = r.gets,
                   !.status = IF r.gets = 1 THEN hresp.status ELSE 0,
                   !.shape = IF r.gets = 1 THEN hresp.body.shape ELSE "",
                   !.preToken = token,
                   !.preHeaders = headers_df,
                   !.preHeadersFile = headersFile[key],
                   !.preStored = stored[key],
                   !.returnsNone = r.returnsNone]

\* FIVEDBManager.query_headers(force)
Call_query_headers ==
    Idle /\ \E force \in BOOLEAN :
    \E tresp \in TokenAnswersIf(force \/ ~headersFile[FiveKey].exists) :
    \E hresp \in HeaderAnswers(headersFile[FiveKey], force, tresp) :
    \E r \in {query_headers(token, tokenFile, headersFile[FiveKey], headers_df, creds,
                             now, force, tresp, hresp)} :
        /\ token' = r.token
        /\ tokenFile' = r.file
        /\ headersFile' = [headersFile EXCEPT ![FiveKey] = r.hfile]
        /\ headers_df' = r.df
        /\ stored' = StoredAfter(FiveKey, r, hresp)
        /\ last' = HeadersCall("query_headers", FiveKey, force, r, hresp)
        /\ UNCHANGED <<textFile, race, system_type, now, creds, dictFile, dicts, fetched>>

\* CytoconDBManager.query_headers(diseases, force)
Call_cytocon_query_headers ==
    Idle /\ system_type = CytoconType /\ \E diseases \in CytoconKeys, force \in BOOLEAN :
    \E tresp \in TokenAnswersIf(force \/ ~headersFile[diseases].exists) :
    \E hresp \in HeaderAnswers(headersFile[diseases], force, tresp) :
    \E r \in {cytocon_query_headers(token, tokenFile, headersFile[diseases], headers_df,
                                     creds, now, diseases, force, tresp, hresp)} :
        /\ token' = r.token
        /\ tokenFile' = r.file
        /\ headersFile' = [headersFile EXCEPT ![diseases] = r.hfile]
        /\ headers_df' = r.df
        /\ stored' = StoredAfter(diseases, r, hresp)
        /\ last' = HeadersCall("cytocon_query_headers", diseases, force, r, hresp)
        /\ UNCHANGED <<textFile, race, system_type, now, creds, dictFile, dicts, fetched>>

\* select_header(column_descriptions)
Call_select_header ==
    Idle /\ \E column_descriptions \in Seqs(Descs, MaxLen) :
    \E r \in {select_header(headers_df, column_descriptions)} :
        /\ last' = [NoCall EXCEPT !.op = "select_header",
                                  !.descs = column_descriptions,
                                  !.raised = r.raised,
                                  !.preToken = token,
                                  !.preHeaders = headers_df,
                                  !.hsel = r.ret,
                                  !.desc = r.desc]
        /\ UNCHANGED <<textFile, stored, race, system_type, now, creds, tokenFile, token, dictFile, dicts, headersFile,
                       headers_df, fetched>>

\* The dictionary and header layers of a manager in a fresh temp directory.
InitData ==
    /\ NewManager
    /\ system_type = FiveType
    /\ creds \in CredStates
    /\ tokenFile = NoFile
    /\ dictFile = [a \in Axes |-> NoDictFile]
    /\ headersFile = [k \in HeaderKeys |-> NoHeadersFile]

NextData ==
    \/ Call_get_dictionary
    \/ Call_load_dictionaries
    \/ Call_select
    \/ Call_query_headers
    \/ Call_select_header
    \/ Return

SpecData == InitData /\ [][NextData]_vars

\* The dictionaries of a FIVE manager: loading, selecting and saving.
NextSave ==
    \/ Call_get_dictionary
    \/ Call_load_dictionaries
    \/ Call_select
    \/ Call_save
    \/ Return

SpecSave == InitData /\ [][NextSave]_vars

\* The filters of a query: at most MaxLen selected values over all axes.
RECURSIVE TotalLen(_, _)
TotalLen(f, i) == IF i > Len(AxisOrder) THEN 0 ELSE Len(f[AxisOrder[i]]) + TotalLen(f, i + 1)

QueryFilters == {f \in [Axes -> Seqs(UserNames, MaxLen)] : TotalLen(f, 1) <= MaxLen}

QueryHeaders == {<<>>, <<Var_param>>, <<Var_param, Var_param_val>>}

QueryAnswers(tresp) == IF CanGet(tresp) THEN QueryResponses ELSE {NoQueryAnswer}

\* FIVEDBManager.query_data(process_type, parameter, ..., headers, wstat_switch)
Call_query_data ==
    Idle /\ system_type = FiveType /\ \E tresp \in TokenAnswers(token, tokenFile, creds, now) :
    \E qresp \in QueryAnswers(tresp) :
    \E filters \in QueryFilters, headers \in QueryHeaders,
       wstat_switch \in {"false", "true"} :
    \E r \in {query_data(token, tokenFile, creds, now, filters, headers,
                          wstat_switch, tresp, qresp)} :
        /\ token' = r.token
        /\ tokenFile' = r.file
        /\ last' = [NoCall EXCEPT !.op = "query_data",
                                  !.raised = r.raised,
                                  !.posts = r.posts, !.gets = r.gets,
                                  !.preToken = token,
                                  !.getToken = r.getToken,
                                  !.status = r.status,
                                  !.shape = IF r.gets = 1 THEN qresp.body.shape ELSE "",
                                  !.filters = filters, !.headers = headers,
                                  !.wstat_switch = wstat_switch,
                                  !.rows = IF r.gets = 1 THEN qresp.body.rows ELSE <<>>,
                                  !.params = r.params,
                                  !.table = r.table,
                                  !.returnsNone = r.returnsNone]
        /\ UNCHANGED <<textFile, stored, race, system_type, now, creds, dictFile, dicts, headersFile,
                       headers_df, fetched>>

RECURSIVE CytoconTotalLen(_, _)
CytoconTotalLen(f, i) ==
    IF i > Len(CytoconAxisOrder) THEN 0
    ELSE Len(f[CytoconAxisOrder[i]]) + CytoconTotalLen(f, i + 1)

CytoconFilters ==
    {f \in [CytoconAxes -> Seqs(UserNames, MaxLen)] : CytoconTotalLen(f, 1) <= MaxLen}

\* CytoconDBManager.query_data(species, tissue_types, diseases, markers, headers,
\* wstat_switch)
Call_cytocon_query_data ==
    Idle /\ system_type = CytoconType /\ \E tresp \in TokenAnswers(token, tokenFile, creds, now) :
    \E qresp \in QueryAnswers(tresp) :
    \E filters \in CytoconFilters, headers \in QueryHeaders,
       wstat_switch \in {"false", "true"} :
    \E r \in {cytocon_query_data(token, tokenFile, creds, now, filters, headers,
                                  wstat_switch, tresp, qresp)} :
        /\ token' = r.token
        /\ tokenFile' = r.file
        /\ last' = [NoCall EXCEPT !.op = "cytocon_query_data",
                                  !.raised = r.raised,
                                  !.posts = r.posts, !.gets = r.gets,
                                  !.preToken = token,
                                  !.getToken = r.getToken,
                                  !.status = r.status,
                                  !.shape = IF r.gets = 1 THEN qresp.body.shape ELSE "",
                                  !.filters = filters, !.headers = headers,
                                  !.wstat_switch = wstat_switch,
                                  !.rows = IF r.gets = 1 THEN qresp.body.rows ELSE <<>>,
                                  !.params = r.params,
                                  !.table = r.table,
                                  !.returnsNone = r.returnsNone]
        /\ UNCHANGED <<textFile, stored, race, system_type, now, creds, dictFile, dicts, headersFile,
                       headers_df, fetched>>

\* The FIVE manager loads its dictionaries.
Call_five_load_dictionaries == system_type = FiveType /\ Call_load_dictionaries

\* A manager of either class in a fresh temp directory.
InitQuery ==
    /\ NewManager
    /\ system_type \in {FiveType, CytoconType}
    /\ creds \in CredStates
    /\ tokenFile = NoFile
    /\ dictFile = [a \in Axes |-> NoDictFile]
    /\ headersFile = [k \in HeaderKeys |-> NoHeadersFile]

NextQuery ==
    \/ Call_five_load_dictionaries
    \/ Call_query_data
    \/ Call_cytocon_query_data
    \/ Return

SpecQuery == InitQuery /\ [][NextQuery]_vars

\* Every operation that talks to the server, on a FIVE manager in a fresh
\* temp directory.
\* The caller starts request_auth_token or do_api_call between two calls.
Idle_request_auth_token == Idle /\ Call_request_auth_token
Idle_do_api_call == Idle /\ Call_do_api_call

NextCalls ==
    \/ Idle_request_auth_token
    \/ Idle_do_api_call
    \/ Call_get_dictionary
    \/ Call_query_headers
    \/ Call_query_data
    \/ Return

SpecCalls == InitData /\ [][NextCalls]_vars

\* The cache file the two processes find: none, or the entry of an earlier run,
\* expired or still valid.
RaceEntries == {TokenFileOf(BearerRequestToken("tA", e)) : e \in {0, MaxLife}}

\* Two processes start request_auth_token, or one of them reset_auth_token.
InitRace ==
    /\ system_type = FiveType
    /\ now = 0
    /\ creds \in CredStates
    /\ tokenFile = NoFile
    /\ token = NoneToken
    /\ dictFile = [a \in Axes |-> NoDictFile]
    /\ dicts = [a \in Axes |-> ListVal(<<>>)]
    /\ headersFile = [k \in HeaderKeys |-> NoHeadersFile]
    /\ headers_df = DataFrame(<<>>)
    /\ fetched = [a \in Axes |-> NotFetched]
    /\ stored = [k \in HeaderKeys |-> NotStored]
    /\ textFile = NoTextFile
    /\ last = NoCall
    /\ \E path \in {AbsentPath} \cup {EntryPath(1, e) : e \in RaceEntries} :
       \E ops \in {o \in [Procs -> {"request_auth_token", "reset_auth_token"}] :
                      \E p \in Procs : o[p] = "request_auth_token"} :
          race = [path |-> path, inodes |-> 1,
                  procs |-> [p \in Procs |-> Proc(ops[p], "exists")],
                  lastWrite |-> NoWrite]

NextRace ==
    \/ Race_request_exists
    \/ Race_request_read
    \/ Race_request_post
    \/ Race_request_open_w
    \/ Race_request_dump
    \/ Race_reset_exists
    \/ Race_reset_remove

SpecRace == InitRace /\ [][NextRace]_vars

\* The FIVE manager asks for its header catalog.
Call_five_query_headers == system_type = FiveType /\ Call_query_headers

\* The header catalog of a manager of either class in a fresh temp directory.
NextHeaders ==
    \/ Call_five_query_headers
    \/ Call_cytocon_query_headers
    \/ Call_select_header
    \/ Return

SpecHeaders == InitQuery /\ [][NextHeaders]_vars

----------------------------------------------------------------------------
(* Properties of the authentication layer, under SpecAuth. *)

IsRequest == last.op = "request_auth_token"
IsApiCall == last.op = "do_api_call"

\* The cache entry the call started with was present, and not yet expired.
PreValid == last.preFile.exists /\ fromisoformat(last.preFile.expires_in) > now
PreExpired == last.preFile.exists /\ fromisoformat(last.preFile.expires_in) <= now

\* The call got a token from the token endpoint.
GotNewToken == last.raised = "none" /\ last.posts = 1 /\ last.ret.expires_in # NoExpiry

\* C1: a request_auth_token that finds a cache entry whose expiry is strictly
\* later than the current time returns the cached token and issues no network
\* request, whatever the state of the credentials file.
C1_CachedTokenNoNetwork ==
    (IsRequest /\ PreValid) =>
        /\ last.raised = "none"
        /\ last.posts = 0 /\ last.gets = 0
        /\ last.ret = BearerRequestToken(last.preFile.token,
                                         fromisoformat(last.preFile.expires_in))
        /\ token = last.ret
        /\ tokenFile = last.preFile

C1_Witness ==
    /\ IsRequest /\ PreValid /\ creds = "missing"
    /\ last.ret.token = "tA" /\ last.ret.expires_in = now + 1

\* C2, as claimed: a request_auth_token that finds an expired cache entry
\* performs exactly one token request and overwrites the cache entry, whatever
\* the outcome of the token request.
C2_Original ==
    (IsRequest /\ PreExpired) =>
        /\ last.posts = 1
        /\ GotNewToken \/ tokenFile # last.preFile

\* C2, amended: a request_auth_token that finds an expired cache entry performs
\* exactly one token request when the credentials file can be read and none
\* when it cannot; the entry is overwritten, with the new token and the expiry
\* now + lifetime, exactly when the endpoint answers 200 with both fields, and
\* is left as it was in every other case.
C2_ExpiredOneRequest ==
    (IsRequest /\ PreExpired) =>
        /\ last.gets = 0
        /\ (creds = "ok") => last.posts = 1
        /\ (creds # "ok") => (last.posts = 0 /\ last.raised # "none")
        /\ GotNewToken =>
              /\ tokenFile = TokenFileOf(last.ret)
              /\ fromisoformat(tokenFile.expires_in) \in now..(now + MaxLife)
              /\ token = last.ret
        /\ ~GotNewToken => tokenFile = last.preFile

C2_Witness ==
    /\ IsRequest /\ PreExpired /\ GotNewToken
    /\ fromisoformat(last.preFile.expires_in) = now
    /\ tokenFile # last.preFile

\* C3, as claimed: reset_auth_token immediately followed by request_auth_token
\* always performs a token request.
C3_Original == (IsRequest /\ last.afterReset) => last.posts = 1

\* C3, amended: reset_auth_token immediately followed by request_auth_token
\* performs exactly one token request, from any prior cache state, when the
\* credentials file can be read; when it cannot, the request raises before
\* any network request.
C3_ResetThenRequest ==
    (IsRequest /\ last.afterReset) =>
        /\ ~last.preFile.exists
        /\ (creds = "ok") => last.posts = 1
        /\ (creds # "ok") => (last.posts = 0 /\ last.raised # "none")

C3_Witness ==
    /\ IsRequest /\ last.afterReset /\ last.posts = 1
    /\ last.resetPre.exists /\ fromisoformat(last.resetPre.expires_in) > now

\* C4, as claimed: no GET is issued carrying a token whose expiry has passed.
C4_NoExpiredTokenInGet ==
    (IsApiCall /\ last.gets >= 1) => last.getToken.expires_in > now

\* C5: a do_api_call that starts without a usable token and whose inline
\* authentication yields no non-empty token raises and issues no GET; every GET
\* carries a non-empty bearer token.
C5_NoTokenNoGet ==
    IsApiCall =>
        /\ last.gets \in {0, 1}
        /\ (last.gets = 1) => (~last.getToken.isNone /\ last.getToken.token # "")
        /\ (~is_authenticated(last.preToken) /\ ~is_authenticated(token)) =>
              (last.raised # "none" /\ last.gets = 0)
        /\ (last.raised # "none") => last.gets = 0

C5_Witness ==
    /\ IsApiCall /\ last.raised = "Exception: not authenticated" /\ last.posts = 1 /\ last.gets = 0
    /\ ~last.preToken.isNone

----------------------------------------------------------------------------
(* Properties of the dictionary and header layers, checked under SpecData,
   and of query_data, checked under SpecQuery. *)

IsSelect == last.op = "select"
IsSelectHeader == last.op = "select_header"
IsGetDictionary == last.op = "get_dictionary"
IsQueryData == last.op = "query_data"

NotFound == "ValueError: not found"
DescNotFound == "ValueError: column description not found"

\* The call got as far as validating against an available dictionary.
Validated == last.reloadRaised = "none" /\ dicts[last.axis].kind # "null"

C7_QueryFilterInDictionary ==
    (IsQueryData /\ last.gets = 1) =>
        \A a \in Axes : Range(last.filters[a]) \subseteq SetOf(dicts[a])

\* A select_header call with a description that has no row raises and issues
\* no request, whatever the catalog holds.
SelectHeaderFailsOffline ==
    (IsSelectHeader /\ \E i \in DOMAIN last.descs :
                          \A j \in DOMAIN last.preHeaders.data :
                             last.preHeaders.data[j][1] # last.descs[i]) =>
        /\ last.raised # "none"
        /\ (~empty(last.preHeaders)) => last.raised = DescNotFound
        /\ last.posts = 0 /\ last.gets = 0
        /\ token = last.preToken

\* C8, as claimed: a select_<axis> call with a value absent from the dictionary
\* raises its validation error with no request issued by the call, in every
\* state of the manager.
C8_Original ==
    /\ (IsSelect /\ Validated
          /\ ~(Range(last.values) \subseteq SetOf(dicts[last.axis]))) =>
            (last.raised = NotFound /\ last.posts = 0 /\ last.gets = 0)
    /\ SelectHeaderFailsOffline

\* C8, amended: a select_<axis> call on a non-empty in-memory dictionary with a
\* value absent from it raises its validation error with no request issued
\* and the token untouched; select_header with an absent description raises
\* with no request in every state.  (On an empty in-memory dictionary the call
\* reloads all dictionaries first, which may issue requests.)
C8_ValidationBeforeNetwork ==
    /\ (IsSelect /\ ~Falsy(last.preDict)
          /\ ~(Range(last.values) \subseteq SetOf(last.preDict))) =>
            /\ last.raised = NotFound
            /\ last.posts = 0 /\ last.gets = 0
            /\ token = last.preToken
            /\ dicts[last.axis] = last.preDict
    /\ SelectHeaderFailsOffline

C8_Witness ==
    /\ IsSelect /\ ~Falsy(last.preDict) /\ last.raised = NotFound
    /\ \E a \in Axes : ~dictFile[a].exists
    /\ creds = "ok"

\* C9: on a loaded catalog select_header returns one variable per requested
\* description, in request order, each the ColumnVariable of the first row
\* whose ColumnDesc equals the description; if some description has no such
\* row the call raises and returns nothing; headers_df is left as it was.
C9_SelectHeaderInOrder ==
    (IsSelectHeader /\ ~empty(last.preHeaders)) =>
        LET rows == last.preHeaders.data
            HasRow(d) == \E j \in DOMAIN rows : rows[j][1] = d
        IN  /\ headers_df = last.preHeaders
            /\ IF \A i \in DOMAIN last.descs : HasRow(last.descs[i])
               THEN /\ last.raised = "none"
                    /\ Len(last.hsel) = Len(last.descs)
                    /\ \A i \in DOMAIN last.descs :
                          \E j \in DOMAIN rows :
                             /\ rows[j][1] = last.descs[i]
                             /\ \A k \in 1..(j - 1) : rows[k][1] # last.descs[i]
                             /\ last.hsel[i] = rows[j][2]
               ELSE /\ last.raised = DescNotFound
                    /\ last.hsel = <<>>
                    /\ ~HasRow(last.desc)
                    /\ \E i \in DOMAIN last.descs :
                          /\ last.descs[i] = last.desc
                          /\ \A k \in 1..(i - 1) : HasRow(last.descs[k])

C9_Witness ==
    /\ IsSelectHeader /\ last.raised = "none"
    /\ last.descs = <<"Parameter value", "Parameter">>
    /\ last.hsel = <<Var_param_val, Var_param>>

AuthErrors ==
    {"FileNotFoundError", "IndexError", "ValueError: token fields missing",
     "Exception: not authenticated"}

\* Once a dictionary has been fetched and cached, get_dictionary with
\* force=false returns the cached value with no request and no authentication.
CachedRoundTrip ==
    (IsGetDictionary /\ ~last.force /\ last.preFetched.done) =>
        /\ last.raised = "none"
        /\ last.dret = last.preFetched.val
        /\ fetched[last.axis] = last.preFetched
        /\ last.posts = 0 /\ last.gets = 0
        /\ token = last.preToken
        /\ dictFile[last.axis] = last.preDictFile

\* C10, as claimed: the cache round trip, and get_dictionary with force=true
\* always issues a fetch.
C10_Original ==
    /\ CachedRoundTrip
    /\ (IsGetDictionary /\ last.force) => last.gets = 1

\* C10, amended: the cache round trip; get_dictionary with force=true never
\* answers from the cache: it issues exactly one GET, unless the call holds no
\* usable token and cannot obtain one, in which case it raises without a GET.
C10_CacheRoundTrip ==
    /\ CachedRoundTrip
    /\ (IsGetDictionary /\ last.force) =>
          \/ last.gets = 1
          \/ /\ last.gets = 0
             /\ last.raised \in AuthErrors
             /\ ~is_authenticated(last.preToken)
             /\ ~is_authenticated(token)
             /\ dictFile[last.axis] = last.preDictFile

C10_Witness ==
    /\ IsGetDictionary /\ ~last.force /\ last.preFetched.done
    /\ last.dret = ListVal(<<Name_b, Name_a>>)
    /\ last.preDictFile.exists

\* C11: a dictionary fetch answered with a non-200 status, or with a 200 whose
\* payload is not decodable JSON, makes get_dictionary return null without
\* raising and without writing the cache; a select_<axis> whose dictionary is
\* null when it validates raises and returns no selection.
C11_NullDictionary ==
    /\ (IsGetDictionary /\ last.gets = 1
          /\ (last.status # 200 \/ last.shape = "badjson")) =>
            /\ last.raised = "none"
            /\ last.dret = NullVal
            /\ dictFile[last.axis] = last.preDictFile
    /\ (IsSelect /\ last.reloadRaised = "none" /\ dicts[last.axis].kind = "null") =>
            /\ last.raised = "TypeError: not iterable"
            /\ last.sel = <<>>

C11_Witness ==
    /\ IsSelect /\ last.reloadRaised = "none" /\ dicts[last.axis].kind = "null"
    /\ last.values = <<>>
    /\ last.gets >= 1

IsAnyQueryData == last.op \in {"query_data", "cytocon_query_data"}

\* C12: whenever the query endpoint answers a query_data call with a non-200
\* status, the call returns null and raises nothing, for the FIVE and for the
\* Cytocon manager.
C12_QueryFailureReturnsNull ==
    (IsAnyQueryData /\ last.gets = 1 /\ last.status # 200) =>
        /\ last.raised = "none"
        /\ last.returnsNone
        /\ last.table = <<>>

C12_Witness ==
    /\ last.op = "cytocon_query_data" /\ system_type = CytoconType
    /\ last.gets = 1 /\ last.status = 404 /\ last.returnsNone
    /\ last.posts = 1

\* C13: no operation re-sends a request: request_auth_token issues at most one
\* token POST and no GET; do_api_call, get_dictionary, query_headers and
\* query_data issue at most one token POST and at most one GET, also when the
\* POST or the GET failed.
C13_NoRetries ==
    /\ IsRequest => (last.posts \in {0, 1} /\ last.gets = 0)
    /\ (last.op \in {"do_api_call", "get_dictionary", "query_headers", "query_data"}) =>
          /\ last.posts \in {0, 1}
          /\ last.gets \in {0, 1}
          /\ (last.raised \in AuthErrors) => last.gets = 0

C13_Witness ==
    /\ IsGetDictionary /\ last.posts = 1 /\ last.gets = 1 /\ last.status = 404
    /\ last.dret = NullVal

InvalidToken == BearerRequestToken("", NoExpiry)

\* C14: when the token endpoint answers with a non-200 status,
\* request_auth_token raises nothing, returns and stores the invalid token
\* marker with the empty token string, so that is_authenticated is false
\* afterwards; the token cache file is left as it was.
C14_RefusedTokenMarker ==
    (IsRequest /\ last.posts = 1 /\ last.tokenStatus # 200) =>
        /\ last.raised = "none"
        /\ last.ret = InvalidToken
        /\ token = InvalidToken
        /\ ~is_authenticated(token)
        /\ tokenFile = last.preFile

C14_Witness ==
    /\ IsRequest /\ last.posts = 1 /\ last.tokenStatus = 500
    /\ is_authenticated(last.preToken)
    /\ ~is_authenticated(token)

\* The token endpoint answered 200 without the access token or the lifetime.
IncompleteAnswer == last.posts = 1 /\ last.tokenStatus = 200 /\ ~last.tokenComplete

\* C15: when the token endpoint answers 200 without the access token or
\* without the lifetime, request_auth_token raises its ValueError, the error
\* comes out of an enclosing do_api_call unchanged, no GET is issued, and the
\* in-memory token and the token cache file are what they were before.
C15_IncompleteAnswerIsFatal ==
    ((IsRequest \/ IsApiCall) /\ IncompleteAnswer) =>
        /\ last.raised = "ValueError: token fields missing"
        /\ last.gets = 0
        /\ token = last.preToken
        /\ tokenFile = last.preFile

C15_Witness ==
    /\ IsApiCall /\ IncompleteAnswer
    /\ last.raised = "ValueError: token fields missing"
    /\ tokenFile.exists /\ ~last.preToken.isNone

\* C16, as claimed: a token request that is refused or answered incompletely
\* leaves the manager holding the invalid token object, and the do_api_call
\* that follows fails fatally.
C16_Original ==
    /\ AuthFailed(last) => token = InvalidToken
    /\ (IsApiCall /\ last.afterAuthFailure) => (last.raised # "none" /\ last.gets = 0)

\* C16, amended: a refused token request (non-200) leaves the manager holding
\* the invalid token object and makes the do_api_call that sent it fail with
\* "not authenticated" before its GET; an incomplete 200 answer raises and
\* leaves the token held as it was, producing no token object.  The
\* do_api_call that follows a failure fails fatally exactly when it still has
\* no usable token after its own inline authentication; otherwise it issues
\* its GET.
C16_AuthFailure ==
    /\ (AuthFailed(last) /\ last.tokenStatus # 200) =>
          /\ token = InvalidToken
          /\ IsApiCall => (last.raised = "Exception: not authenticated" /\ last.gets = 0)
    /\ (AuthFailed(last) /\ last.tokenStatus = 200) =>
          /\ token = last.preToken
          /\ last.raised = "ValueError: token fields missing" /\ last.gets = 0
    /\ (IsApiCall /\ last.afterAuthFailure) =>
          /\ (last.raised # "none") <=> ~is_authenticated(token) \/ AuthFailed(last)
          /\ (last.raised = "none") <=> (last.gets = 1 /\ is_authenticated(token))

C16_Witness ==
    /\ IsApiCall /\ last.afterAuthFailure
    /\ last.preToken = InvalidToken
    /\ last.raised = "none" /\ last.posts = 1 /\ last.gets = 1

IsReset == last.op = "reset_auth_token"

\* C17: reset_auth_token ends, from any state of the token cache, with no
\* cache entry and raises nothing, also when the entry was already absent;
\* a second call right after the first changes nothing more.
C17_ResetIdempotent ==
    IsReset =>
        /\ ~tokenFile.exists
        /\ tokenFile = NoFile
        /\ last.raised = "none"
        /\ last.posts = 0 /\ last.gets = 0
        /\ reset_auth_token(tokenFile) = tokenFile
        /\ last.afterReset => (~last.preFile.exists /\ tokenFile = last.preFile)

C17_Witness ==
    /\ IsReset /\ last.afterReset
    /\ last.resetPre.exists /\ ~last.preFile.exists /\ ~tokenFile.exists

RaceDone == \A p \in Procs : race.procs[p].pc = "done"

\* C18, as claimed: in every interleaving of two processes on one token cache
\* file no process fails on the cache file, every read of the file sees no
\* entry or a complete one, and once both have finished after a write the
\* file holds the complete entry of the process that wrote last.
C18_LastWriterWins ==
    /\ \A p \in Procs :
          /\ race.procs[p].raised \notin {"FileNotFoundError: token cache",
                                          "JSONDecodeError: token cache"}
          /\ ~race.procs[p].sawPartial
    /\ (RaceDone /\ race.lastWrite.kind = "dump") =>
          /\ race.path.present /\ race.path.complete
          /\ race.path.entry = TokenFileOf(race.procs[race.lastWrite.proc].token)

IsQueryHeaders == last.op \in {"query_headers", "cytocon_query_headers"}

\* query_headers with force=false and a cache entry under its key issues no
\* request, makes the cached table the manager's catalog and, when the entry was
\* stored by an earlier 200 answer, that table is the one stored then.
HeadersCacheHit ==
    (IsQueryHeaders /\ ~last.force /\ last.preHeadersFile.exists) =>
        /\ last.raised = "none" /\ ~last.returnsNone
        /\ last.posts = 0 /\ last.gets = 0
        /\ token = last.preToken
        /\ headers_df = DataFrame(last.preHeadersFile.records)
        /\ last.preStored.done => headers_df = last.preStored.df
        /\ headersFile[last.key] = last.preHeadersFile

\* A 200 answer with a list of records, or with a single record, is stored as
\* a table (one row for the single record) in the manager and under the key,
\* and only under that key.
HeadersStored ==
    (IsQueryHeaders /\ last.gets = 1 /\ last.status = 200 /\ last.shape # "badjson") =>
        /\ last.raised = "none" /\ ~last.returnsNone
        /\ headersFile[last.key].exists
        /\ DataFrame(headersFile[last.key].records) = headers_df
        /\ stored[last.key] = [done |-> TRUE, df |-> headers_df]
        /\ (last.shape = "record") => Len(headers_df.data) = 1

\* C19, as claimed: the cache hit, the stored table, and with force=true or no
\* entry exactly one headers request.
C19_Original ==
    /\ HeadersCacheHit
    /\ HeadersStored
    /\ (IsQueryHeaders /\ (last.force \/ ~last.preHeadersFile.exists)) => last.gets = 1

\* C19, amended: the cache hit and the stored table as claimed; with force=true
\* or no entry the call issues exactly one headers request, unless it holds no
\* usable token and cannot obtain one, in which case it raises without a
\* request and leaves the catalog and the cache as they were.
C19_HeaderCatalogCache ==
    /\ HeadersCacheHit
    /\ HeadersStored
    /\ (IsQueryHeaders /\ (last.force \/ ~last.preHeadersFile.exists)) =>
          \/ last.gets = 1
          \/ /\ last.gets = 0
             /\ last.raised \in AuthErrors
             /\ ~is_authenticated(last.preToken) /\ ~is_authenticated(token)
             /\ headers_df = last.preHeaders
             /\ headersFile[last.key] = last.preHeadersFile

C19_Witness ==
    /\ last.op = "cytocon_query_headers" /\ ~last.force
    /\ last.preStored.done /\ Len(last.preStored.df.data) = 1
    /\ headers_df = last.preStored.df
    /\ last.preHeaders # headers_df

\* The dictionary endpoint answered 200 with a decodable payload.
Fetched200 == IsGetDictionary /\ last.gets = 1 /\ last.status = 200

\* C20, as claimed: on a successful fetch get_dictionary returns, and writes to
\* the cache, a list of names: the Name fields in response order for a list of
\* objects, and a list as well for a single object exposing a Name field; any
\* other JSON shape raises and writes nothing.
C20_ListOfNames ==
    /\ (Fetched200 /\ last.shape = "list") =>
          /\ last.raised = "none"
          /\ last.dret = ListVal(last.body.names)
          /\ dictFile[last.axis] = DictFileOf(last.dret)
    /\ (Fetched200 /\ last.shape = "dict") =>
          /\ last.raised = "none"
          /\ last.dret.kind = "list"
          /\ json_load(dictFile[last.axis].text).kind = "list"
    /\ (Fetched200 /\ last.shape = "other") =>
          /\ last.raised = "ValueError: unexpected JSON structure"
          /\ dictFile[last.axis] = last.preDictFile

\* The text that holds the first n of the values, each after the first preceded
\* by one ','.
RECURSIVE CommaSeparated(_, _)
CommaSeparated(values, n) ==
    IF n = 0 THEN <<>>
    ELSE IF n = 1 THEN values[1]
    ELSE CommaSeparated(values, n - 1) \o <<0>> \o values[n]

\* The GET of a query_data call carries one parameter per filter axis, the
\* headers and the wstatSwitch flag, as the caller gave them.
QueryParamsAsGiven ==
    /\ \A a \in Axes :
          last.params.filters[a] = CommaSeparated(last.filters[a], Len(last.filters[a]))
    /\ last.params.headers = CommaSeparated(last.headers, Len(last.headers))
    /\ last.params.wstatSwitch = last.wstat_switch

\* The result of a query_data call whose GET was answered: one row per object
\* of a 200 JSON array, null for a non-200 status.
QueryResult ==
    /\ (last.status = 200 /\ last.shape = "rows") =>
          /\ last.raised = "none" /\ ~last.returnsNone
          /\ Len(last.table) = Len(last.rows)
          /\ last.table = last.rows
    /\ (last.status # 200) => last.raised = "none" /\ last.returnsNone

\* C21, as claimed: every query_data call issues exactly one GET with the
\* joined parameters and returns the table of a 200 row array, or null on
\* failure.
C21_Original ==
    IsQueryData => last.gets = 1 /\ QueryParamsAsGiven /\ QueryResult

\* C21, amended: a query_data call issues at most one GET; it issues none only
\* when it holds no usable token and cannot obtain one, and then it raises the
\* authentication error; the GET it issues carries the joined parameters, and a
\* 200 row array comes back as a table with one row per object, a non-200
\* status as null.
C21_QueryData ==
    IsQueryData =>
        \/ last.gets = 1 /\ QueryParamsAsGiven /\ QueryResult
        \/ /\ last.gets = 0
           /\ last.raised \in AuthErrors
           /\ ~is_authenticated(last.preToken) /\ ~is_authenticated(token)
           /\ ~last.returnsNone /\ last.table = <<>>

C21_Witness ==
    /\ IsQueryData /\ last.gets = 1 /\ last.status = 200
    /\ Len(last.table) = 2
    /\ \E a \in Axes : Len(last.filters[a]) = 2 /\ last.filters[a][1] # last.filters[a][2]
    /\ Len(last.headers) = 2
    /\ last.wstat_switch = "true"

IsSelectOrSave == last.op \in {"select", "save"}

\* A reload with force=false that ran to its end: every axis with a cache file
\* holds the content of that file, which is left as it was, and every axis
\* without one was asked from the server, once.
ReloadedUnforced ==
    /\ \A a \in Axes :
          last.preDictFiles[a].exists =>
              /\ dictFile[a] = last.preDictFiles[a]
              /\ dicts[a] = json_load(last.preDictFiles[a].text)
    /\ last.gets = Cardinality({a \in Axes : ~last.preDictFiles[a].exists})
    /\ last.posts <= 1

\* C22: a select_<axis> or save_<axis> call on an empty dictionary reloads all
\* dictionaries with force=false before it validates or writes, and an exception
\* of the reload ends the call; on a non-empty dictionary the call reloads
\* nothing, issues no request and leaves every dictionary and cache file as it
\* was.
C22_LazyReload ==
    IsSelectOrSave =>
        IF Falsy(last.preDict)
        THEN /\ last.reloadRaised = "none" =>
                   /\ ReloadedUnforced
                   /\ (last.op = "select" /\ dicts[last.axis].kind # "null") =>
                         (last.raised = "none") =
                             (Range(last.values) \subseteq SetOf(dicts[last.axis]))
                   /\ (last.op = "save") =>
                         textFile = save_dictionary_to_text_file(
                                        dicts[last.axis], last.preTextFile, last.writable)
             /\ last.reloadRaised # "none" =>
                   /\ last.raised = last.reloadRaised
                   /\ last.sel = <<>>
                   /\ textFile = last.preTextFile
        ELSE /\ last.reloadRaised = "none"
             /\ last.posts = 0 /\ last.gets = 0
             /\ dicts = last.preDicts
             /\ dictFile = last.preDictFiles
             /\ token = last.preToken

C22_Witness ==
    /\ last.op = "save" /\ Falsy(last.preDict) /\ last.reloadRaised = "none"
    /\ \E a, b \in Axes : /\ last.preDictFiles[a].exists
                          /\ ~last.preDictFiles[b].exists
                          /\ dicts[b] # last.preDicts[b]
    /\ last.gets = 1
    /\ textFile.exists /\ textFile.text # <<>>

\* C23: a request_auth_token call, made directly or inside do_api_call, whose
\* token request is answered with a non-200 status leaves the cache entry as it
\* was; the entry differs after the call only when the request was answered 200
\* with both fields, and then it holds the in-memory token and its expiry.
C23_OnlySuccessWrites ==
    (IsRequest \/ IsApiCall) =>
        /\ (last.posts = 1 /\ last.tokenStatus # 200) => tokenFile = last.preFile
        /\ (tokenFile # last.preFile) =>
              /\ last.posts = 1 /\ last.tokenStatus = 200 /\ last.tokenComplete
              /\ IsRequest => last.raised = "none"
              /\ tokenFile.exists
              /\ tokenFile.token = token.token
              /\ fromisoformat(tokenFile.expires_in) = token.expires_in

C23_Witness ==
    /\ IsRequest /\ last.posts = 1 /\ last.tokenStatus # 200
    /\ last.preFile.exists /\ fromisoformat(last.preFile.expires_in) <= now
    /\ tokenFile = last.preFile
    /\ token = BearerRequestToken("", NoExpiry)

\* C24: reset_auth_token leaves the token in memory as it was, so a manager
\* that was authenticated stays authenticated; the do_api_call that follows the
\* reset of an authenticated manager sends no token request and issues its GET
\* with that token, leaving the cache entry absent.
C24_ResetKeepsMemoryToken ==
    /\ IsReset =>
          /\ token = last.preToken
          /\ is_authenticated(last.preToken) => is_authenticated(token)
    /\ (IsApiCall /\ last.afterReset /\ is_authenticated(last.preToken)) =>
          /\ last.raised = "none"
          /\ last.posts = 0 /\ last.gets = 1
          /\ last.getToken = last.preToken
          /\ token = last.preToken
          /\ ~tokenFile.exists

C24_Witness ==
    /\ IsApiCall /\ last.afterReset /\ is_authenticated(last.preToken)
    /\ last.gets = 1 /\ last.posts = 0
    /\ last.getToken.token = "tA"
    /\ ~tokenFile.exists

====
